---- MODULE Spec2Model ----
(***************************************************************************)
(* Model of the network-call interception and span-lifecycle engine of the *)
(* Tomo client telemetry SDK: patchFetch and its body codec                *)
(* (src/src/patch-fetch.js), the span runner (src/unnamed/part_001, the    *)
(* otel/tracing-utils module), the tracer reference (src/src/otel/         *)
(* tracers.js) and the console override of the error tracker (the second   *)
(* module held in src/src/patch-fetch.js), the entry point                 *)
(* (src/src/index.js) and the setup of the navigation and performance      *)
(* trackers.                                                               *)
(*                                                                         *)
(* Strings the code slices, searches or measures are sequences of tokens   *)
(* (a request body is a sequence of one-character strings, a URL a         *)
(* sequence of URL pieces), so slice / includes / length are computed.     *)
(***************************************************************************)
EXTENDS Integers, Sequences, FiniteSets, TLC

VARIABLES
    config,          \* config-store: the stored collectorUrl, or NoConfig
    tracer,          \* tracers.js `let tracer`: TRUE once setupTracer has run
    patched,         \* globalThis.__patchedFetch
    wrappers,        \* globalThis.fetch: the wrapper closures around the native
                     \* fetch, innermost first; each holds its ingestEndpoint
    captures,        \* how many times `const originalFetch = globalThis.fetch` ran
    patchCalls,      \* how many times patchFetch has been called
    errorTracking,   \* error-tracker `let isInitialized`
    consoleLayers,   \* how many overrides wrap the native console.error
    spans,           \* every span the tracer has started
    calls,           \* the calls of the wrapped fetch, by call id
    runs,            \* the direct uses of runWithSpan / runWithSpanSync
    codec,           \* the body codec applied on its own (CodecSpec)
    navigation,      \* navigation-tracker: `let isInitialized`, listeners registered
    performance,     \* performance-tracker: `let isInitialized`, listeners registered
    sdk              \* the uses of `new TomoClientTelemetry(config)` so far

\* the state of the sibling trackers and of the entry point
trackerVars == <<navigation, performance, sdk>>

vars == <<config, tracer, patched, wrappers, captures, patchCalls, errorTracking,
          consoleLayers, spans, calls, runs, codec, navigation, performance, sdk>>

-----------------------------------------------------------------------------
(* Bounds of the model *)

MaxCalls == 2          \* calls of the wrapped fetch in one behaviour
MaxSpecCalls == 1      \* of these, the calls a behaviour of Spec makes
MaxPatchCalls == 2     \* calls of patchFetch in one behaviour
MaxConstructs == 2     \* uses of new TomoClientTelemetry(config) in one behaviour
MaxLifecycleRuns == 1  \* of the MaxRuns uses, those a behaviour of LifecycleSpec makes
MaxRuns == 3           \* direct runWithSpan / runWithSpanSync uses in one behaviour
MaxShort == 2          \* codec inputs: short bodies of 0..MaxShort characters
MaxOver == 2           \* codec inputs: bodies of up to TruncLimit + MaxOver characters

(* Program constants *)

TruncLimit == 2048     \* patch-fetch.js:76

-----------------------------------------------------------------------------
(* Strings as sequences *)

\* String.prototype.includes
Includes(s, t) ==
    \E i \in 0..(Len(s) - Len(t)) : SubSeq(s, i + 1, i + Len(t)) = t

\* String.prototype.slice(0, n)
Slice(s, n) == SubSeq(s, 1, IF Len(s) < n THEN Len(s) ELSE n)

\* the literal '...[truncated]' of patch-fetch.js:76
TruncMarker == <<".", ".", ".", "[", "t", "r", "u", "n", "c", "a", "t", "e", "d", "]">>

\* a string of n characters: c at the odd places, d at the even ones
Chars(n, c, d) == [i \in 1..n |-> IF i % 2 = 0 THEN d ELSE c]

-----------------------------------------------------------------------------
(* Request values *)

\* options.body values: a JS value tagged by the test extractRequestBody applies
NoBody == [kind |-> "undefined"]
StringBody(text) == [kind |-> "string", text |-> text]
ParamsBody(text) == [kind |-> "URLSearchParams", text |-> text]
BlobBody(mime) == [kind |-> "Blob", mime |-> mime]
FormDataBody == [kind |-> "FormData"]
ArrayBufferBody == [kind |-> "ArrayBuffer"]
OtherBody(typeof) == [kind |-> "other", typeof |-> typeof]

\* the fetch options (init): undefined, or an object with method and body
NoInit == [given |-> FALSE]
Options(method, body) == [given |-> TRUE, method |-> method, body |-> body]

\* JS truthiness of options.body: undefined and the empty string are falsy,
\* every object (FormData, URLSearchParams, ArrayBuffer, Blob, ...) is truthy
Truthy(body) ==
    CASE body.kind = "undefined" -> FALSE
      [] body.kind = "string" -> body.text # <<>>
      [] OTHER -> TRUE

\* JSON.parse(text) succeeds; over the alphabet of the model's bodies ("1",
\* "a", "=") the JSON texts are the non-empty digit strings
JsonParses(text) == text # <<>> /\ \A i \in 1..Len(text) : text[i] = "1"

\* a truncation that already cuts a body of exactly TruncLimit characters
TruncateAtLimit(text) ==
    IF Len(text) >= TruncLimit THEN Slice(text, TruncLimit) \o TruncMarker ELSE text

\* patch-fetch.js:76, the truncation of a string body
Truncate(text) ==
    IF Len(text) > TruncLimit THEN Slice(text, TruncLimit) \o TruncMarker ELSE text

\* the result {body, type} of extractRequestBody; defined = FALSE is
\* {body: undefined, type: undefined}
Extracted(body, type) == [defined |-> TRUE, body |-> body, type |-> type]
NothingExtracted == [defined |-> FALSE]

extractRequestBody(options) ==
    IF options.given /\ Truthy(options.body)
    THEN CASE options.body.kind = "string" ->
                Extracted(Truncate(options.body.text),
                          IF JsonParses(options.body.text) THEN "json" ELSE "string")
           [] options.body.kind = "FormData" -> Extracted(<<"[FormData body]">>, "formdata")
           [] options.body.kind = "URLSearchParams" ->
                Extracted(options.body.text, "urlencoded")
           [] options.body.kind = "ArrayBuffer" ->
                Extracted(<<"[ArrayBuffer body]">>, "arraybuffer")
           [] options.body.kind = "Blob" ->
                Extracted(<<"[Blob: ", options.body.mime, "]">>, "blob")
           [] OTHER -> Extracted(<<"[unhandled body type]">>, options.body.typeof)
    ELSE NothingExtracted

\* the conditional spreads of patch-fetch.js:152-153
BodyAttributes(options) ==
    LET r == extractRequestBody(options)
    IN  IF r.defined
        THEN ("httpRequestBody" :> r.body) @@ ("httpRequestBodyType" :> r.type)
        ELSE <<>>

-----------------------------------------------------------------------------
(* URLs, inputs, thrown values, responses *)

\* a URL string, as the sequence of its pieces
CollectorUrl == <<"https://collector.example.com", "/v1/traces">>
UsersUrl == <<"https://api.example.com", "/users">>
UsersQueryUrl == <<"https://api.example.com", "/users", "?active=true">>
\* the collector endpoint after the configuration was changed
NewCollectorUrl == <<"https://collector2.example.com", "/v1/traces">>
\* an application URL that carries the collector endpoint in its query
RedirectUrl == <<"https://api.example.com", "/go", "?to=",
                 "https://collector.example.com", "/v1/traces">>

\* the input of a fetch call: a URL string, or a request-like object
StringInput(url) == [kind |-> "string", url |-> url]
RequestInput(url, method) == [kind |-> "request", url |-> url, method |-> method]
\* new URL(href): an object with href and no url field
UrlObjectInput(href) == [kind |-> "object", href |-> href]
\* the value undefined where a string is expected; no string equals it
Undefined == <<"undefined">>

\* values a promise rejects with. message and status are "" and 0 when the
\* value has none; cyclic: JSON.stringify of the value throws (an object
\* that refers to itself); hasStatus: the value has a status field
Thrown(id, message, status, cyclic) ==
    [id |-> id, message |-> message, status |-> status, cyclic |-> cyclic,
     hasStatus |-> status # 0]
NetworkError == Thrown("TypeError: Failed to fetch", "Failed to fetch", 0, FALSE)
HttpError == Thrown("HttpError", "Service Unavailable", 503, FALSE)
AbortReason == Thrown("abort reason object", "", 0, TRUE)
\* the error of a request that never reached a server, as HTTP clients
\* report it: { message: 'Network Error', status: 0 }
StatusZeroError ==
    [Thrown("Error: Network Error", "Network Error", 0, FALSE) EXCEPT !.hasStatus = TRUE]
\* TypeErrors the runtime raises inside the SDK
NullSpanError == Thrown("TypeError: span is null", "Cannot read properties of null", 0, FALSE)
StringifyError == Thrown("TypeError: cyclic", "Converting circular structure to JSON", 0, FALSE)
HeadersError == Thrown("TypeError: headers", "Cannot read properties of undefined", 0, FALSE)
CloneError == Thrown("TypeError: clone", "Response body is already used", 0, FALSE)
\* undefined.includes(...) in the wrapper
UrlError == Thrown("TypeError: url", "Cannot read properties of undefined", 0, FALSE)

\* what the captured fetch can reject with
Rejections == {NetworkError, HttpError, AbortReason, StatusZeroError}

\* String(err)
StringOf(err) == <<err.id>>

\* a content-type header value, as the sequence of its pieces
JsonType == <<"application/json", "; charset=utf-8">>
TextType == <<"text/", "plain">>
ImageType == <<"image/png">>

\* contentType.includes('application/json'), contentType.startsWith('text/')
IsJsonType(ct) == Includes(ct, <<"application/json">>)
IsTextType(ct) == Len(ct) > 0 /\ ct[1] = "text/"

\* the response object the captured fetch resolves with for call c
Response(c, status, ct, text) ==
    [id |-> c, status |-> status, contentType |-> ct, text |-> text]
NoResponse == [id |-> 0]

\* body texts of a response; JSON.stringify(JSON.parse(t)) drops the blanks
\* between the tokens of a JSON text
ParsesAsJson(t) == Len(t) > 0 /\ t[1] = "{"
Restringify(t) == SelectSeq(t, LAMBDA x : x # " ")

\* outcomes of a promise
Resolved(v) == [kind |-> "resolved", value |-> v]
Rejected(v) == [kind |-> "rejected", value |-> v]
Pending == [kind |-> "pending"]

-----------------------------------------------------------------------------
(* Spans: the tracer's startSpan and the Span methods *)

\* The spans the tracer has started are kept by the place that started them:
\* <<"call", c>> is the span of wrapped call c, <<"console", c>> the span the
\* console override starts while call c logs, <<"run", r>> the span of the
\* direct runner use r. Null is the null span handed to fn without a tracer.
Null == <<"null", 0>>
SpanSlots ==
    ({"call", "console"} \X (1..MaxCalls)) \cup ({"run", "child"} \X (1..MaxRuns))
      \cup ({"page.view", "performance.metric", "performance.page_load"} \X {1})

\* the root context: a span started in it has no parent
RootContext == <<"root", 0>>

\* @opentelemetry/api context.active(), called while the context.with
\* callback of the span `within` is running (Null: outside every callback).
\* setupTracer registers a tracer provider (tracers.js:57) and nothing
\* registers a context manager, so the API runs its no-op context manager:
\* context.with(ctx, fn) only calls fn, and active() is the root context
\* whichever callback is running.
ContextActive(within) == RootContext

\* a context manager that leaves the context of the last context.with active
ContextLeft(before, ctx) == ctx

\* context.active() as the caller sees it once context.with(ctx, fn) has
\* returned or thrown (tracing-utils 24, 65), `before` being the context
\* active at the call: the no-op context manager never switched contexts
ContextAfterWith(before, ctx) == before

NoSpan == [started |-> 0]
Span(name, attributes, started) ==
    [name |-> name, attributes |-> attributes, status |-> "UNSET",
     ends |-> 0, late |-> 0, started |-> started, parent |-> ContextActive(Null)]

\* tracer.startSpan at slot i
startSpan(ss, i, name, attributes) ==
    [ss EXCEPT ![i] = Span(name, attributes, @.started + 1)]

\* tracer.startSpan(name, options, context.active()) at slot i, called from
\* the context.with callback of the span `within`
startSpanWithin(ss, i, name, attributes, within) ==
    [startSpan(ss, i, name, attributes) EXCEPT ![i].parent = ContextActive(within)]

\* a setSpanAttributes that writes to whichever spans are open, not to the
\* span it was handed
setSpanAttributesShared(ss, i, attributes) ==
    IF i = Null THEN ss
    ELSE [j \in DOMAIN ss |->
            IF ss[j].started > 0 /\ ss[j].ends = 0
            THEN [ss[j] EXCEPT !.attributes = attributes @@ @]
            ELSE ss[j]]

\* span.setAttribute for every entry (setSpanAttributes); no-op on a null
\* span; a write after end() is dropped by the span and counted
setSpanAttributes(ss, i, attributes) ==
    IF i = Null THEN ss
    ELSE IF ss[i].ends > 0 THEN [ss EXCEPT ![i].late = @ + 1]
    ELSE [ss EXCEPT ![i].attributes = attributes @@ @]

\* span.setStatus({code}) on a span that is not null
setStatus(ss, i, code) ==
    IF ss[i].ends > 0 THEN [ss EXCEPT ![i].late = @ + 1]
    ELSE [ss EXCEPT ![i].status = code]

\* span.end()
end(ss, i) == [ss EXCEPT ![i].ends = @ + 1]

\* a runner without its finally clause: the span is ended on success only
FinishSpanNoFinally(ss, i, threw) ==
    IF i = Null THEN ss
    ELSE IF threw THEN setStatus(ss, i, "ERROR") ELSE end(ss, i)

\* a runner that ends the span first and marks the failure afterwards
FinishSpanEndFirst(ss, i, threw) ==
    IF i = Null THEN ss
    ELSE IF threw THEN setStatus(end(ss, i), i, "ERROR") ELSE end(ss, i)

\* the tail of runWithSpan / runWithSpanSync once fn has settled: the catch
\* clause when fn threw, then the finally clause; no span without a tracer
FinishSpan(ss, i, threw) ==
    IF i = Null THEN ss
    ELSE end(IF threw THEN setStatus(ss, i, "ERROR") ELSE ss, i)

-----------------------------------------------------------------------------
(* State *)

NoConfig == <<>>
CollectorUrls == {CollectorUrl}

IdleCall ==
    [pc |-> "idle", input |-> StringInput(<<>>), init |-> NoInit, span |-> Null,
     origCalls |-> 0, origArgs |-> <<>>, origOutcome |-> Pending,
     res |-> NoResponse, clones |-> 0, cloneReads |-> 0, origReads |-> 0,
     logged |-> 0, lastRead |-> "none", outcome |-> Pending]

\* a sibling tracker before its setup, and the entry point before any use
NoTracker == [isInitialized |-> FALSE, listeners |-> 0]
NoSdk == [constructs |-> 0, outcome |-> "none"]

IdleRun == [pc |-> "idle", kind |-> "none", span |-> Null, outcome |-> "none"]

NoCodec == [phase |-> "off"]

Init ==
    /\ config = NoConfig
    /\ tracer = FALSE
    /\ patched = FALSE
    /\ wrappers = <<>>
    /\ captures = 0
    /\ patchCalls = 0
    /\ errorTracking = FALSE
    /\ consoleLayers = 0
    /\ spans = [i \in SpanSlots |-> NoSpan]
    /\ calls = [c \in 1..MaxCalls |-> IdleCall]
    /\ runs = [r \in 1..MaxRuns |-> IdleRun]
    /\ codec = NoCodec
    /\ navigation = NoTracker
    /\ performance = NoTracker
    /\ sdk = NoSdk

-----------------------------------------------------------------------------
(* Setup operations *)

\* config-store setConfig, as index.js:31 calls it with a config whose
\* required fields are present. The store is used as its interface says:
\* getConfig returns the stored config, and the operations that read it
\* (setupTracer, patchFetch) run once a config is stored.
setConfig(url) ==
    /\ config' = url
    /\ UNCHANGED <<tracer, patched, wrappers, captures, patchCalls, errorTracking,
                   consoleLayers, spans, calls, runs, codec, trackerVars>>

\* tracers.js setupTracer: reads the config, registers the provider, sets tracer
setupTracer ==
    /\ config # NoConfig
    /\ tracer' = TRUE
    /\ UNCHANGED <<config, patched, wrappers, captures, patchCalls, errorTracking,
                   consoleLayers, spans, calls, runs, codec, trackerVars>>

\* a patchFetch that never sees the guard set
GuardIgnored(flag) == FALSE

\* the guard of patchFetch (patch-fetch.js:113): return at once when set
AlreadyPatched(flag) == flag

\* a patchFetch that installs the wrapper and leaves the guard as it was
GuardLeft(flag) == flag

\* the last statement of patchFetch (patch-fetch.js:173): the guard after it
GuardSet(flag) == TRUE

\* patch-fetch.js patchFetch
patchFetch ==
    /\ config # NoConfig
    /\ patchCalls < MaxPatchCalls
    /\ patchCalls' = patchCalls + 1
    /\ IF AlreadyPatched(patched)
       THEN UNCHANGED <<patched, wrappers, captures>>
       ELSE /\ captures' = captures + 1
            /\ wrappers' = Append(wrappers, [ingestEndpoint |-> config])
            /\ patched' = GuardSet(patched)
    /\ UNCHANGED <<config, tracer, errorTracking, consoleLayers, spans,
                   calls, runs, codec, trackerVars>>

\* error-tracker setupErrorTracking: one-shot, overrides console.error
setupErrorTracking ==
    /\ IF errorTracking
       THEN UNCHANGED <<errorTracking, consoleLayers>>
       ELSE /\ errorTracking' = TRUE
            /\ consoleLayers' = consoleLayers + 1
    /\ UNCHANGED <<config, tracer, patched, wrappers, captures, patchCalls,
                   spans, calls, runs, codec, trackerVars>>

-----------------------------------------------------------------------------
(* console.error, native or overridden by the error tracker *)

\* error-tracker trackError: no tracer, no span; else runWithSpanSync with
\* an empty body, which starts the span and ends it
trackError(ss, hasTracer, context, i) ==
    IF hasTracer
    THEN FinishSpan(startSpan(ss, i, "error.occurred", ("error.context" :> context)),
                    i, FALSE)
    ELSE ss

\* console.error(err) as the wrapper calls it (patch-fetch.js:128). With
\* `layers` overrides installed, the override (patch-fetch.js:307-313) builds
\* its arguments with String and JSON.stringify before it calls trackError
\* and the native console.error; JSON.stringify throws on a cyclic value.
\* Result: the spans, whether the native console.error ran, and the value
\* the call throws (if any).
consoleError(ss, hasTracer, layers, err, i) ==
    IF layers = 0
    THEN [spans |-> ss, logged |-> 1, threw |-> FALSE, thrown |-> err]
    ELSE IF err.cyclic
    THEN [spans |-> ss, logged |-> 0, threw |-> TRUE, thrown |-> StringifyError]
    ELSE [spans |-> trackError(ss, hasTracer, "console", i),
          logged |-> 1, threw |-> FALSE, thrown |-> err]

-----------------------------------------------------------------------------
(* The wrapper installed by patchFetch: one action per run to the next await *)

\* a resolution that falls back to the href of a URL object
ResolveUrlOrHref(input) ==
    IF "url" \in DOMAIN input THEN input.url ELSE input.href

\* patch-fetch.js:121
ResolveUrl(input) ==
    IF input.kind = "string" THEN input.url
    ELSE IF "url" \in DOMAIN input THEN input.url
    ELSE Undefined

\* a wrapper that reads the collector endpoint from the configuration at
\* every call
IngestEndpointReRead(captured, current) == current

\* the endpoint the wrapper compares with: the constant of its closure
\* (patch-fetch.js:118), whatever the configuration is when it is called
IngestEndpoint(captured, current) == captured

\* patch-fetch.js:124, loop prevention
IsCollectorTraffic(url, ingestEndpoint) == Includes(url, ingestEndpoint)

\* patch-fetch.js:133; "" is a method that is not given
Method(input, init) ==
    IF init.given /\ init.method # "" THEN init.method
    ELSE IF input.kind = "request" /\ input.method # "" THEN input.method
    ELSE "GET"

ToUpperCase(m) == IF m = "get" THEN "GET" ELSE m

\* new URL(url).search: the pieces from the one that opens the query
QueryPieces == {"?active=true", "?to="}
Search(url) ==
    LET at == {i \in 1..Len(url) : url[i] \in QueryPieces}
    IN  IF at = {} THEN <<>>
        ELSE SubSeq(url, CHOOSE i \in at : \A j \in at : i <= j, Len(url))

\* a query extraction that does not look at the method
QueryAttributesAnyMethod(input, method) ==
    IF Search(ResolveUrl(input)) # <<>>
    THEN ("httpQueryParams" :> Search(ResolveUrl(input)))
    ELSE <<>>

\* extractQueryParams: undefined (absent) when the URL has no query
QueryAttributes(input, method) ==
    IF ToUpperCase(method) = "GET" /\ Search(ResolveUrl(input)) # <<>>
    THEN ("httpQueryParams" :> Search(ResolveUrl(input)))
    ELSE <<>>

\* the attributes the span is started with (patch-fetch.js:147-155)
RequestAttributes(input, init) ==
    LET url == ResolveUrl(input)
        method == Method(input, init)
    IN  ("httpMethod" :> method) @@ ("httpUrl" :> url) @@ ("httpHost" :> url[1])
        @@ ("httpPath" :> url[2]) @@ BodyAttributes(init) @@ QueryAttributes(input, method)

\* setHttpSpanStatus (patch-fetch.js:15-24)
setHttpSpanStatus(ss, i, res) ==
    IF i = Null THEN ss
    ELSE setStatus(setSpanAttributes(ss, i, ("httpStatusCode" :> res.status)), i,
                   IF res.status >= 400 THEN "ERROR" ELSE "OK")

\* the last statement of setHTTPResponseBody (patch-fetch.js:55-58)
setResponseAttributes(ss, i, bodyText, responseType) ==
    setSpanAttributes(ss, i, ("httpResponse" :> bodyText)
                             @@ ("httpResponseType" :> responseType))

\* the catch branch of the span body (patch-fetch.js:162-169): the span
\* after it and the value it throws. span.setStatus on a null span throws a
\* TypeError, which replaces err.
CatchBranch(ss, i, err) ==
    IF i = Null
    THEN [spans |-> ss, thrown |-> NullSpanError]
    ELSE [spans |-> setStatus(
                      setSpanAttributes(ss, i,
                        ("httpError" :> (IF err.message # "" THEN <<err.message>>
                                         ELSE StringOf(err)))
                        @@ ("httpStatusCode" :> (IF err.status # 0 THEN err.status ELSE 500))),
                      i, "ERROR"),
          thrown |-> err]

\* the span body threw err: its catch branch, then runWithSpan's catch and
\* finally; the wrapper's promise rejects
Failed(ss, i, err) ==
    LET cb == CatchBranch(ss, i, err)
    IN  [spans |-> FinishSpan(cb.spans, i, TRUE), outcome |-> Rejected(cb.thrown)]

\* the span body returned res: runWithSpan's finally; the promise resolves
Succeeded(ss, i, res) ==
    [spans |-> FinishSpan(ss, i, FALSE), outcome |-> Resolved(res)]

\* a setHTTPResponseBody that reads res itself
ReadOriginal(pc) == "original"

\* which object setHTTPResponseBody reads the body from (clonedRes.json(),
\* clonedRes.text())
ReadTarget(pc) == "clone"

\* a span body that starts the read and returns res without awaiting it
ResolveBeforeRead(call, pc) == [call EXCEPT !.pc = pc, !.outcome = Resolved(call.res)]

\* the span body suspended at `await setHTTPResponseBody(span, res)`, itself
\* suspended at the await of the duplicate's json() or text()
\* (patch-fetch.js:36, 39, 161): the wrapper's promise stays as it is
AwaitRead(call, pc) == [call EXCEPT !.pc = pc]

\* the wrapper's promise settles with the outcome of `result`
Done(call, result) == [call EXCEPT !.pc = "done", !.outcome = result.outcome]

EnvUnchanged ==
    UNCHANGED <<config, tracer, patched, wrappers, captures, patchCalls,
                errorTracking, consoleLayers, runs, codec, trackerVars>>

\* globalThis.fetch(input, init) up to its first await: the bypass awaits
\* the captured fetch; a traced call starts its span in runWithSpan (when a
\* tracer is set) and awaits the captured fetch inside the span body
FetchCall(c, input, init) ==
    /\ patched
    /\ calls[c].pc = "idle"
    /\ \A d \in 1..(c - 1) : calls[d].pc # "idle"
    /\ LET url == ResolveUrl(input)
           invoked == [calls[c] EXCEPT !.input = input, !.init = init,
                                       !.origCalls = @ + 1,
                                       !.origArgs = <<input, init>>]
       IN  IF url = Undefined
           THEN /\ calls' = [calls EXCEPT ![c] =
                               [@ EXCEPT !.input = input, !.init = init, !.pc = "done",
                                         !.outcome = Rejected(UrlError)]]
                /\ UNCHANGED spans
           ELSE IF IsCollectorTraffic(url, IngestEndpoint(wrappers[Len(wrappers)].ingestEndpoint,
                                                          config))
           THEN /\ calls' = [calls EXCEPT ![c] = [invoked EXCEPT !.pc = "bypass"]]
                /\ UNCHANGED spans
           ELSE /\ spans' = IF tracer
                            THEN startSpan(spans, <<"call", c>>, "tomo.http.request",
                                           RequestAttributes(input, init))
                            ELSE spans
                /\ calls' = [calls EXCEPT ![c] =
                               [invoked EXCEPT !.pc = "fetching",
                                               !.span = IF tracer THEN <<"call", c>> ELSE Null]]
    /\ EnvUnchanged

\* the bypass resumes (patch-fetch.js:125-130): the captured fetch resolved
\* with res, or rejected with err, which is logged and thrown again
BypassResolve(c, res) ==
    /\ calls[c].pc = "bypass"
    /\ calls' = [calls EXCEPT ![c] = [@ EXCEPT !.pc = "done", !.res = res,
                                               !.origOutcome = Resolved(res),
                                               !.outcome = Resolved(res)]]
    /\ UNCHANGED spans
    /\ EnvUnchanged

BypassReject(c, err) ==
    /\ calls[c].pc = "bypass"
    /\ LET log == consoleError(spans, tracer, consoleLayers, err, <<"console", c>>)
       IN  /\ spans' = log.spans
           /\ calls' = [calls EXCEPT ![c] = [@ EXCEPT !.pc = "done",
                                                      !.logged = @ + log.logged,
                                                      !.origOutcome = Rejected(err),
                                                      !.outcome = Rejected(log.thrown)]]
    /\ EnvUnchanged

\* the span body resumes with the response of the captured fetch
\* (patch-fetch.js:158-161) and runs setHTTPResponseBody to its first await.
\* headersOk, cloneOk: whether res.headers.get and res.clone() return.
OrigResolve(c, res, headersOk, cloneOk) ==
    /\ calls[c].pc = "fetching"
    /\ LET i == calls[c].span
           got == [calls[c] EXCEPT !.res = res, !.origOutcome = Resolved(res)]
           ss == setHttpSpanStatus(spans, i, res)
       IN  IF i = Null
           THEN /\ calls' = [calls EXCEPT ![c] = Done(got, Succeeded(ss, i, res))]
                /\ spans' = ss
           ELSE IF ~headersOk
           THEN /\ calls' = [calls EXCEPT ![c] = Done(got, Failed(ss, i, HeadersError))]
                /\ spans' = Failed(ss, i, HeadersError).spans
           ELSE IF ~cloneOk
           THEN /\ calls' = [calls EXCEPT ![c] = Done(got, Failed(ss, i, CloneError))]
                /\ spans' = Failed(ss, i, CloneError).spans
           ELSE IF IsJsonType(res.contentType)
           THEN /\ calls' = [calls EXCEPT ![c] =
                               AwaitRead([got EXCEPT !.clones = @ + 1], "readJson")]
                /\ spans' = ss
           ELSE IF IsTextType(res.contentType)
           THEN /\ calls' = [calls EXCEPT ![c] =
                               AwaitRead([got EXCEPT !.clones = @ + 1], "readText")]
                /\ spans' = ss
           ELSE LET set == setResponseAttributes(ss, i, <<>>, "")
                IN  /\ calls' = [calls EXCEPT ![c] =
                                    Done([got EXCEPT !.clones = @ + 1],
                                         Succeeded(set, i, res))]
                    /\ spans' = Succeeded(set, i, res).spans
    /\ EnvUnchanged

\* the span body resumes with the rejection of the captured fetch
OrigReject(c, err) ==
    /\ calls[c].pc = "fetching"
    /\ LET i == calls[c].span
           got == [calls[c] EXCEPT !.origOutcome = Rejected(err)]
       IN  /\ calls' = [calls EXCEPT ![c] = Done(got, Failed(spans, i, err))]
           /\ spans' = Failed(spans, i, err).spans
    /\ EnvUnchanged

\* a fallback that gives up with empty values when the second read fails
FallbackBlank(readOk, text) ==
    IF readOk THEN [body |-> text, type |-> "text"] ELSE [body |-> <<>>, type |-> ""]

\* the catch clause of setHTTPResponseBody once its text() has settled
\* (patch-fetch.js:43-49)
FallbackResult(readOk, text) ==
    IF readOk THEN [body |-> text, type |-> "text"]
    ELSE [body |-> <<"[unreadable response body]">>, type |-> "unknown"]

\* setHTTPResponseBody resumes from a body read (patch-fetch.js:36-52).
\* readOk: the stream delivered the body; cloneOk: the res.clone() of the
\* catch clause returns.
ReadSettle(c, readOk, cloneOk) ==
    /\ calls[c].pc \in {"readJson", "readText", "readFallback"}
    /\ LET i == calls[c].span
           res == calls[c].res
           pc == calls[c].pc
           how == IF ~readOk THEN "failed"
                  ELSE IF pc = "readJson" /\ ~ParsesAsJson(res.text) THEN "unparsable"
                  ELSE "ok"
           read == IF ReadTarget(pc) = "clone"
                   THEN [calls[c] EXCEPT !.cloneReads = @ + 1, !.lastRead = how]
                   ELSE [calls[c] EXCEPT !.origReads = @ + 1, !.lastRead = how]
           finish(bodyText, responseType) ==
               Succeeded(setResponseAttributes(spans, i, bodyText, responseType), i, res)
       IN  IF pc = "readJson" /\ readOk /\ ParsesAsJson(res.text)
           THEN /\ calls' = [calls EXCEPT ![c] = Done(read, finish(Restringify(res.text), "json"))]
                /\ spans' = finish(Restringify(res.text), "json").spans
           ELSE IF pc = "readText" /\ readOk
           THEN /\ calls' = [calls EXCEPT ![c] = Done(read, finish(res.text, "text"))]
                /\ spans' = finish(res.text, "text").spans
           ELSE IF pc = "readFallback"
           THEN LET f == finish(FallbackResult(readOk, res.text).body,
                                FallbackResult(readOk, res.text).type)
                IN  /\ calls' = [calls EXCEPT ![c] = Done(read, f)]
                    /\ spans' = f.spans
           ELSE IF cloneOk
           THEN /\ calls' = [calls EXCEPT ![c] =
                               AwaitRead([read EXCEPT !.clones = @ + 1], "readFallback")]
                /\ UNCHANGED spans
           ELSE /\ calls' = [calls EXCEPT ![c] = Done(read, Failed(spans, i, CloneError))]
                /\ spans' = Failed(spans, i, CloneError).spans
    /\ EnvUnchanged

-----------------------------------------------------------------------------
(* runWithSpan and runWithSpanSync used directly (trackers, SDK users) *)

CallsUnchanged ==
    UNCHANGED <<config, tracer, patched, wrappers, captures, patchCalls,
                errorTracking, consoleLayers, calls, codec, trackerVars>>

\* runWithSpanSync(name, options, fn): fn returns, or throws
runWithSpanSync(r, throws) ==
    /\ runs[r].pc = "idle"
    /\ \A q \in 1..(r - 1) : runs[q].pc # "idle"
    /\ LET i == IF tracer THEN <<"run", r>> ELSE Null
       IN  /\ spans' = IF tracer
                        THEN FinishSpan(startSpan(spans, i, "sync", <<>>), i, throws)
                        ELSE spans
           /\ runs' = [runs EXCEPT ![r] =
                         [pc |-> "done", kind |-> "sync", span |-> i,
                          outcome |-> IF throws THEN "threw" ELSE "returned",
                          contextBefore |-> ContextActive(Null),
                          contextAfter |-> IF tracer
                                           THEN ContextAfterWith(ContextActive(Null), i)
                                           ELSE ContextActive(Null)]]
    /\ CallsUnchanged

\* runWithSpan(name, options, fn) up to the await of fn(span)
runWithSpan(r) ==
    /\ runs[r].pc = "idle"
    /\ \A q \in 1..(r - 1) : runs[q].pc # "idle"
    /\ spans' = IF tracer THEN startSpan(spans, <<"run", r>>, "async", <<>>) ELSE spans
    /\ runs' = [runs EXCEPT ![r] =
                  [pc |-> "awaiting", kind |-> "async",
                   span |-> IF tracer THEN <<"run", r>> ELSE Null, outcome |-> "none",
                   contextBefore |-> ContextActive(Null), contextAfter |-> Null]]
    /\ CallsUnchanged

\* fn, resumed from an await inside the context.with callback of run r, uses
\* runWithSpanSync with no parentContext and an empty body (as the trackers
\* do): the span is started with context.active() as its parent and ended
runWithSpanSyncWithin(r) ==
    /\ runs[r].pc = "awaiting"
    /\ tracer
    /\ spans[<<"child", r>>].started = 0
    /\ spans' = FinishSpan(startSpanWithin(spans, <<"child", r>>, "child", <<>>,
                                           runs[r].span),
                           <<"child", r>>, FALSE)
    /\ UNCHANGED runs
    /\ CallsUnchanged

\* runWithSpan resumes: fn's promise resolved, or rejected
runWithSpanSettle(r, rejects) ==
    /\ runs[r].pc = "awaiting"
    /\ spans' = FinishSpan(spans, runs[r].span, rejects)
    /\ runs' = [runs EXCEPT ![r].pc = "done",
                             ![r].outcome = IF rejects THEN "threw" ELSE "returned",
                             ![r].contextAfter =
                                 IF runs[r].span # Null
                                 THEN ContextAfterWith(runs[r].contextBefore, runs[r].span)
                                 ELSE runs[r].contextBefore]
    /\ CallsUnchanged

-----------------------------------------------------------------------------
(* The sibling trackers and the entry point (index.js) *)

\* navigation-tracker trackPageView: no tracer, no span; else runWithSpanSync
\* with an empty body
trackPageView(ss, hasTracer) ==
    IF hasTracer
    THEN FinishSpan(startSpan(ss, <<"page.view", 1>>, "page.view",
                              ("navigation.type" :> "initial_load")),
                    <<"page.view", 1>>, FALSE)
    ELSE ss

\* navigation-tracker setupNavigationTracking: one-shot; tracks the initial
\* page view and registers the popstate, beforeunload and visibilitychange
\* listeners
setupNavigationTracking ==
    /\ IF navigation.isInitialized
       THEN UNCHANGED <<navigation, spans>>
       ELSE /\ navigation' = [isInitialized |-> TRUE, listeners |-> navigation.listeners + 3]
            /\ spans' = trackPageView(spans, tracer)
    /\ UNCHANGED <<config, tracer, patched, wrappers, captures, patchCalls, errorTracking,
                   consoleLayers, calls, runs, codec, performance, sdk>>

\* document.readyState when setupPerformanceTracking runs
ReadyStates == {"loading", "interactive", "complete"}

\* performance-tracker trackPerformanceMetric('dom_content_loaded', ...) and
\* trackPageLoadPerformance(): runWithSpanSync with an empty body, at the
\* ready states that run them at once (performance-tracker.js:152, 161)
trackPerformance(ss, hasTracer, readyState) ==
    LET metric == IF hasTracer /\ readyState \in {"interactive", "complete"}
                  THEN FinishSpan(startSpan(ss, <<"performance.metric", 1>>,
                                            "performance.metric",
                                            ("performance.metric_name" :> "dom_content_loaded")),
                                  <<"performance.metric", 1>>, FALSE)
                  ELSE ss
    IN  IF hasTracer /\ readyState = "complete"
        THEN FinishSpan(startSpan(metric, <<"performance.page_load", 1>>,
                                  "performance.page_load", <<>>),
                        <<"performance.page_load", 1>>, FALSE)
        ELSE metric

\* the listeners setupPerformanceTracking registers: load (page load) unless
\* complete, DOMContentLoaded while loading, and load (resources) always
PerformanceListeners(readyState) ==
    (IF readyState = "complete" THEN 0 ELSE 1)
      + (IF readyState = "loading" THEN 1 ELSE 0) + 1

\* performance-tracker setupPerformanceTracking: one-shot
setupPerformanceTracking(readyState) ==
    /\ IF performance.isInitialized
       THEN UNCHANGED <<performance, spans>>
       ELSE /\ performance' = [isInitialized |-> TRUE,
                               listeners |-> performance.listeners
                                               + PerformanceListeners(readyState)]
            /\ spans' = trackPerformance(spans, tracer, readyState)
    /\ UNCHANGED <<config, tracer, patched, wrappers, captures, patchCalls, errorTracking,
                   consoleLayers, calls, runs, codec, navigation, sdk>>

\* the constructor's argument: which of the required fields are truthy
RequiredFields == {"apiKey", "serviceName", "serviceVersion", "collectorUrl"}
Configs == [RequiredFields -> BOOLEAN]

\* a constructor without its checks
ValidateNothing(cfg) == "ok"

\* index.js:22-25: the error the constructor throws for cfg, "ok" for none
Validate(cfg) ==
    IF ~cfg["apiKey"] THEN "Error: apiKey required"
    ELSE IF ~cfg["serviceName"] THEN "Error: serviceName required"
    ELSE IF ~cfg["serviceVersion"] THEN "Error: serviceVersion required"
    ELSE IF ~cfg["collectorUrl"] THEN "Error: collectorUrl required"
    ELSE "ok"

\* the names index.js imports (index.js:7-12) and the function patch-fetch.js
\* exports (patch-fetch.js:112)
IndexImports ==
    {"setupTracer", "getTracer", "wrapFetch", "setupNavigationTracking",
     "setupErrorTracking", "setupPerformanceTracking", "setConfig"}
PatchFetchExports == {"patchFetch"}

\* index.js:8 imports wrapFetch, a name patch-fetch.js does not export. Where
\* ES modules are linked (a browser, the rollup of package.json) that is an
\* error and the entry point never loads ("unlinked"); a bundler that shims
\* missing exports binds wrapFetch to undefined ("shimmed").
Builds == {"unlinked", "shimmed"}

\* the outcome of _initializeTracking (index.js:51-65): getConfig is called
\* but is not imported, wrapFetch is imported but is not exported
InitializeTrackingOutcome ==
    IF "getConfig" \notin IndexImports THEN "ReferenceError: getConfig is not defined"
    ELSE IF "wrapFetch" \notin PatchFetchExports THEN "TypeError: wrapFetch is not a function"
    ELSE "returned"

\* new TomoClientTelemetry(config) (index.js:21-37) with a config whose
\* truthy required fields are cfg and whose collectorUrl, when given, is url
Construct(cfg, url, build) ==
    /\ sdk.constructs < MaxConstructs
    /\ IF sdk.constructs = 0 THEN TRUE ELSE sdk.build = build
    /\ LET loaded == build = "shimmed" \/ "wrapFetch" \in PatchFetchExports
           valid == Validate(cfg) = "ok"
           outcome == IF ~loaded THEN "SyntaxError: no export named wrapFetch"
                      ELSE IF ~valid THEN Validate(cfg)
                      ELSE InitializeTrackingOutcome
       IN  /\ sdk' = [constructs |-> sdk.constructs + 1, outcome |-> outcome,
                      config |-> cfg, build |-> build]
           /\ IF loaded /\ valid
              THEN \* setConfig(config); setupTracer(); this.tracer = getTracer()
                   /\ config' = (IF cfg["collectorUrl"] THEN url ELSE NoConfig)
                   /\ tracer' = TRUE
                   /\ IF outcome = "returned"
                      THEN \* wrapFetch(); setupNavigationTracking();
                           \* setupErrorTracking(); setupPerformanceTracking()
                           /\ patchCalls' = patchCalls + 1
                           /\ patched' = TRUE
                           /\ wrappers' = IF patched THEN wrappers
                                          ELSE Append(wrappers, [ingestEndpoint |-> config'])
                           /\ captures' = IF patched THEN captures ELSE captures + 1
                           /\ navigation' = IF navigation.isInitialized THEN navigation
                                            ELSE [isInitialized |-> TRUE,
                                                  listeners |-> navigation.listeners + 3]
                           /\ errorTracking' = TRUE
                           /\ consoleLayers' = IF errorTracking THEN consoleLayers
                                               ELSE consoleLayers + 1
                           /\ \E readyState \in ReadyStates :
                                /\ performance' =
                                      IF performance.isInitialized THEN performance
                                      ELSE [isInitialized |-> TRUE,
                                            listeners |-> performance.listeners
                                                            + PerformanceListeners(readyState)]
                                /\ spans' =
                                      LET nav == IF navigation.isInitialized THEN spans
                                                 ELSE trackPageView(spans, TRUE)
                                      IN  IF performance.isInitialized THEN nav
                                          ELSE trackPerformance(nav, TRUE, readyState)
                      ELSE UNCHANGED <<patched, wrappers, captures, patchCalls, errorTracking,
                                       consoleLayers, spans, navigation, performance>>
              ELSE UNCHANGED <<config, tracer, patched, wrappers, captures, patchCalls,
                               errorTracking, consoleLayers, spans, navigation, performance>>
    /\ UNCHANGED <<calls, runs, codec>>


-----------------------------------------------------------------------------
(* The specification of the SDK *)

\* the calls the application makes: <<input, init>>
FetchRequests ==
    {<<StringInput(CollectorUrl), Options("POST", StringBody(<<"1", "1">>))>>,
     <<StringInput(RedirectUrl), NoInit>>,
     <<StringInput(UsersQueryUrl), NoInit>>,
     <<RequestInput(UsersUrl, "POST"), Options("", ParamsBody(<<"a", "=", "1">>))>>,
     <<RequestInput(UsersQueryUrl, "GET"), Options("POST", ParamsBody(<<>>))>>,
     <<StringInput(UsersQueryUrl), Options("get", StringBody(<<>>))>>,
     <<UrlObjectInput(UsersUrl), NoInit>>}

\* the responses the captured fetch resolves call c with
Responses(c) ==
    {Response(c, 200, JsonType, <<"{", " ", "}">>),
     Response(c, 404, JsonType, <<"o", "k">>),
     Response(c, 200, TextType, <<"o", "k">>),
     Response(c, 404, ImageType, <<>>)}

Next ==
    \/ \E url \in CollectorUrls : setConfig(url)
    \/ setupTracer
    \/ patchFetch
    \/ setupErrorTracking
    \/ \E c \in 1..MaxSpecCalls, req \in FetchRequests : FetchCall(c, req[1], req[2])
    \/ \E c \in 1..MaxCalls : \E res \in Responses(c) : BypassResolve(c, res)
    \/ \E c \in 1..MaxCalls, err \in Rejections : BypassReject(c, err)
    \/ \E c \in 1..MaxCalls : \E res \in Responses(c), headersOk, cloneOk \in BOOLEAN :
          OrigResolve(c, res, headersOk, cloneOk)
    \/ \E c \in 1..MaxCalls, err \in Rejections : OrigReject(c, err)
    \/ \E c \in 1..MaxCalls, readOk, cloneOk \in BOOLEAN : ReadSettle(c, readOk, cloneOk)

Spec == Init /\ [][Next]_vars

-----------------------------------------------------------------------------
(* Calls of the wrapped fetch that overlap: the SDK is set up (config       *)
(* stored, tracer set, fetch patched once), and every call can be made      *)
(* while the calls made before it are still in flight                       *)

ConcurrentInit ==
    /\ config = CollectorUrl
    /\ tracer = TRUE
    /\ patched = TRUE
    /\ wrappers = <<[ingestEndpoint |-> CollectorUrl]>>
    /\ captures = 1
    /\ patchCalls = 1
    /\ errorTracking = FALSE
    /\ consoleLayers = 0
    /\ spans = [i \in SpanSlots |-> NoSpan]
    /\ calls = [c \in 1..MaxCalls |-> IdleCall]
    /\ runs = [r \in 1..MaxRuns |-> IdleRun]
    /\ codec = NoCodec
    /\ navigation = NoTracker
    /\ performance = NoTracker
    /\ sdk = NoSdk

ConcurrentRequests ==
    {<<StringInput(UsersQueryUrl), NoInit>>,
     <<RequestInput(UsersUrl, "POST"), Options("", ParamsBody(<<"a", "=", "1">>))>>}

ConcurrentResponses(c) ==
    {Response(c, 200, JsonType, <<"{", " ", "}">>),
     Response(c, 404, ImageType, <<>>)}

ConcurrentNext ==
    \/ \E c \in 1..MaxCalls, req \in ConcurrentRequests : FetchCall(c, req[1], req[2])
    \/ \E c \in 1..MaxCalls :
          \E res \in ConcurrentResponses(c), headersOk, cloneOk \in BOOLEAN :
             OrigResolve(c, res, headersOk, cloneOk)
    \/ \E c \in 1..MaxCalls : OrigReject(c, HttpError)
    \/ \E c \in 1..MaxCalls, readOk, cloneOk \in BOOLEAN : ReadSettle(c, readOk, cloneOk)

ConcurrentSpec == ConcurrentInit /\ [][ConcurrentNext]_vars

-----------------------------------------------------------------------------
(* The span runner on its own: direct uses of runWithSpan / runWithSpanSync *)
(* whose fn takes every exit path, with and without a tracer                *)

RunnerNext ==
    \/ \E url \in CollectorUrls : setConfig(url)
    \/ setupTracer
    \/ \E r \in 1..MaxRuns, throws \in BOOLEAN : runWithSpanSync(r, throws)
    \/ \E r \in 1..MaxRuns : runWithSpan(r)
    \/ \E r \in 1..MaxRuns : runWithSpanSyncWithin(r)
    \/ \E r \in 1..MaxRuns, rejects \in BOOLEAN : runWithSpanSettle(r, rejects)

RunnerSpec == Init /\ [][RunnerNext]_vars

-----------------------------------------------------------------------------
(* The body codec on its own: extractRequestBody over bodies around the limit *)

CodecLengths ==
    (0..MaxShort) \cup ((TruncLimit - 1)..(TruncLimit + MaxOver))
    \cup {TruncLimit + Len(TruncMarker) + 1}

CodecTexts ==
    UNION {{Chars(n, "1", "1"), Chars(n, "a", "1"), Chars(n, "a", "="), Chars(n, "1", "a")} :
           n \in CodecLengths}

CodecBodies ==
    {StringBody(t) : t \in CodecTexts} \cup {ParamsBody(t) : t \in CodecTexts}
    \cup {NoBody, FormDataBody, ArrayBufferBody, BlobBody(""), BlobBody("image/png"),
          OtherBody("object"), OtherBody("number")}

CodecOptions == {NoInit} \cup {Options("POST", b) : b \in CodecBodies}

CodecInit ==
    /\ config = NoConfig
    /\ tracer = FALSE
    /\ patched = FALSE
    /\ wrappers = <<>>
    /\ captures = 0
    /\ patchCalls = 0
    /\ errorTracking = FALSE
    /\ consoleLayers = 0
    /\ spans = [i \in SpanSlots |-> NoSpan]
    /\ calls = [c \in 1..MaxCalls |-> IdleCall]
    /\ runs = [r \in 1..MaxRuns |-> IdleRun]
    /\ codec \in {[phase |-> "input", options |-> o] : o \in CodecOptions}
    /\ navigation = NoTracker
    /\ performance = NoTracker
    /\ sdk = NoSdk

\* the request part of the wrapper (patch-fetch.js:136, 152-153) on codec.options
CodecApply ==
    /\ codec.phase = "input"
    /\ codec' = [phase |-> "output", options |-> codec.options,
                 result |-> extractRequestBody(codec.options),
                 attributes |-> BodyAttributes(codec.options)]
    /\ UNCHANGED <<config, tracer, patched, wrappers, captures, patchCalls, errorTracking,
                   consoleLayers, spans, calls, runs, trackerVars>>

CodecNext == CodecApply

CodecSpec == CodecInit /\ [][CodecNext]_vars

\* The wrapped fetch and both runner variants side by side, with a tracer:
\* every span the SDK starts, through every exit of its body
LifecycleNext ==
    \/ \E c \in 1..MaxSpecCalls, req \in ConcurrentRequests : FetchCall(c, req[1], req[2])
    \/ \E c \in 1..MaxCalls :
          \E res \in ConcurrentResponses(c), headersOk, cloneOk \in BOOLEAN :
             OrigResolve(c, res, headersOk, cloneOk)
    \/ \E c \in 1..MaxCalls : OrigReject(c, HttpError)
    \/ \E c \in 1..MaxCalls, readOk, cloneOk \in BOOLEAN : ReadSettle(c, readOk, cloneOk)
    \/ \E r \in 1..MaxLifecycleRuns, throws \in BOOLEAN : runWithSpanSync(r, throws)
    \/ \E r \in 1..MaxLifecycleRuns : runWithSpan(r)
    \/ \E r \in 1..MaxRuns : runWithSpanSyncWithin(r)
    \/ \E r \in 1..MaxRuns, rejects \in BOOLEAN : runWithSpanSettle(r, rejects)

LifecycleSpec == ConcurrentInit /\ [][LifecycleNext]_vars

\* the entry point and the setup operations of every module, in any order
SetupNext ==
    \/ \E cfg \in Configs, url \in CollectorUrls, build \in Builds : Construct(cfg, url, build)
    \/ \E url \in CollectorUrls : setConfig(url)
    \/ setupTracer
    \/ patchFetch
    \/ setupNavigationTracking
    \/ setupErrorTracking
    \/ \E readyState \in ReadyStates : setupPerformanceTracking(readyState)

SetupSpec == Init /\ [][SetupNext]_vars

-----------------------------------------------------------------------------
(* The collector endpoint changes after the SDK was set up: setConfig with *)
(* another collectorUrl, patchFetch called again, and calls to the old and *)
(* to the new collector                                                    *)

EndpointUrls == {CollectorUrl, NewCollectorUrl}

EndpointRequests ==
    {<<StringInput(CollectorUrl), NoInit>>,
     <<StringInput(NewCollectorUrl), NoInit>>}

EndpointResponse(c) == Response(c, 200, ImageType, <<>>)

EndpointNext ==
    \/ \E url \in EndpointUrls : setConfig(url)
    \/ setupTracer
    \/ patchFetch
    \/ \E c \in 1..MaxCalls, req \in EndpointRequests : FetchCall(c, req[1], req[2])
    \/ \E c \in 1..MaxCalls : BypassResolve(c, EndpointResponse(c))
    \/ \E c \in 1..MaxCalls : OrigResolve(c, EndpointResponse(c), TRUE, TRUE)

EndpointSpec == Init /\ [][EndpointNext]_vars

-----------------------------------------------------------------------------
(* Properties *)

Calls == 1..MaxCalls
Runs == 1..MaxRuns

\* call c went through the collector bypass / through the traced path
Bypassed(c) == calls[c].pc \in {"bypass", "done"} /\ calls[c].span = Null
                 /\ ResolveUrl(calls[c].input) # Undefined
                 /\ IsCollectorTraffic(ResolveUrl(calls[c].input), wrappers[1].ingestEndpoint)
Traced(c) == calls[c].pc # "idle"
               /\ ResolveUrl(calls[c].input) # Undefined
               /\ ~IsCollectorTraffic(ResolveUrl(calls[c].input), wrappers[1].ingestEndpoint)
Finished(c) == calls[c].pc = "done"

HasAttribute(span, key) == key \in DOMAIN span.attributes

\* C1: every call of the wrapped fetch whose URL contains the collector
\* endpoint invokes the captured fetch exactly once with the same input and
\* init, and its caller observes exactly the outcome of that invocation.
C1_BypassTransparent ==
    \A c \in Calls :
        Bypassed(c) =>
            /\ calls[c].origCalls = 1
            /\ calls[c].origArgs = <<calls[c].input, calls[c].init>>
            /\ Finished(c) => calls[c].outcome = calls[c].origOutcome

\* C2: a call whose URL contains the collector endpoint starts no span of
\* any name, whether the captured fetch resolves or rejects, the logging of
\* the rejection included.
C2_NoSpanForCollector ==
    \A c \in Calls :
        Bypassed(c) =>
            /\ spans[<<"call", c>>].started = 0
            /\ spans[<<"console", c>>].started = 0

\* after any number n >= 1 of patchFetch calls exactly one wrapper is
\* installed, the fetch was captured once, and a call of the global fetch
\* invokes the captured fetch once, never twice (a call whose input has no
\* URL ends in the one wrapper before it reaches the captured fetch, C27)
C3_OneWrapper ==
    patchCalls >= 1 =>
        /\ patched
        /\ Len(wrappers) = 1
        /\ captures = 1
        /\ \A c \in Calls :
              calls[c].pc # "idle" =>
                  calls[c].origCalls = (IF ResolveUrl(calls[c].input) = Undefined
                                        THEN 0 ELSE 1)

\* C3: patchFetch is idempotent: C3_OneWrapper holds in every state, and
\* once patchFetch has been called no step changes the guard, the installed
\* wrapper or the captured fetch.
C3_PatchFetchIdempotent ==
    /\ []C3_OneWrapper
    /\ [][patchCalls >= 1 => UNCHANGED <<patched, wrappers, captures>>]_vars

C3_Witness ==
    /\ patchCalls >= 2
    /\ \E c \in Calls : Finished(c)

\* C4: when the captured fetch rejects a non-collector call with e, the
\* caller's promise rejects with e and the call's span is ended exactly once
\* with status ERROR.
C4_RejectionPropagates ==
    \A c \in Calls :
        (Traced(c) /\ Finished(c) /\ calls[c].origOutcome.kind = "rejected") =>
            /\ calls[c].outcome = calls[c].origOutcome
            /\ calls[c].span # Null =>
                  /\ spans[calls[c].span].ends = 1
                  /\ spans[calls[c].span].status = "ERROR"

\* C5: without a tracer (the span body runs with a null span) the caller of
\* the wrapped fetch observes the outcome of the captured fetch, whatever it
\* is, as it does with a tracer.
C5_SameOutcomeWithoutTracer ==
    \A c \in Calls :
        (Traced(c) /\ Finished(c) /\ calls[c].span = Null) =>
            calls[c].outcome = calls[c].origOutcome

\* C6: a use of runWithSpan or runWithSpanSync with a tracer starts at most
\* one span; the span is not ended while fn runs and is ended exactly once
\* when fn has returned, thrown, resolved or rejected.
C6_SpanEndedOnce ==
    /\ \A i \in SpanSlots : spans[i].started <= 1
    /\ \A i \in SpanSlots : spans[i].started = 1 => spans[i].ends <= 1
    /\ \A r \in Runs :
          /\ runs[r].span # Null => spans[runs[r].span].started = 1
          /\ (runs[r].pc = "awaiting" /\ runs[r].span # Null) =>
                spans[runs[r].span].ends = 0
          /\ (runs[r].pc = "done" /\ runs[r].span # Null) =>
                spans[runs[r].span].ends = 1

C6_Witness ==
    /\ \E r \in Runs : /\ runs[r].pc = "done" /\ runs[r].kind = "async"
                        /\ runs[r].outcome = "threw" /\ runs[r].span # Null
    /\ \E r \in Runs : /\ runs[r].pc = "done" /\ runs[r].kind = "sync"
                        /\ runs[r].span # Null

\* C7: tracing reads the body of duplicates only, never of the response the
\* captured fetch returned; the response handed to the caller is unconsumed.
C7_OriginalUnconsumed ==
    \A c \in Calls :
        /\ calls[c].origReads = 0
        /\ calls[c].cloneReads <= calls[c].clones

C7_Witness ==
    \E c \in Calls :
        /\ Finished(c)
        /\ calls[c].outcome = Resolved(calls[c].res)
        /\ calls[c].cloneReads = 2

\* C8: when the captured fetch resolves with a response, no failure of
\* reading the content type, of duplicating the response or of reading a
\* duplicate fails the call: the wrapped fetch resolves with that response,
\* and the span has no httpError and keeps the status code and the status
\* derived from the response.
C8_BodyFailureContained ==
    \A c \in Calls :
        (Traced(c) /\ Finished(c) /\ calls[c].origOutcome.kind = "resolved") =>
            /\ calls[c].outcome = Resolved(calls[c].res)
            /\ calls[c].span # Null =>
                  LET span == spans[calls[c].span]
                  IN  /\ ~HasAttribute(span, "httpError")
                      /\ span.attributes["httpStatusCode"] = calls[c].res.status
                      /\ span.status = IF calls[c].res.status >= 400 THEN "ERROR" ELSE "OK"

\* the codec was applied to a string body b
CodecString == codec.phase = "output" /\ codec.options.given
                 /\ codec.options.body.kind = "string"
CodecHasBody == "httpRequestBody" \in DOMAIN codec.attributes

\* C9 as stated: for every string body b, httpRequestBody is the first
\* TruncLimit characters of b followed by the marker when b is longer than
\* TruncLimit, and b itself otherwise, the empty string included.
C9_StringBodyAttribute ==
    CodecString =>
        LET b == codec.options.body.text
        IN  /\ CodecHasBody
            /\ codec.attributes["httpRequestBody"] =
                  IF Len(b) > TruncLimit THEN SubSeq(b, 1, TruncLimit) \o TruncMarker ELSE b

\* C9 amended: the same for every non-empty string body; for the empty
\* string no httpRequestBody attribute is set.
C9_NonEmptyStringBodyAttribute ==
    CodecString =>
        LET b == codec.options.body.text
        IN  IF b = <<>> THEN ~CodecHasBody
            ELSE /\ CodecHasBody
                 /\ codec.attributes["httpRequestBody"] =
                       IF Len(b) > TruncLimit THEN SubSeq(b, 1, TruncLimit) \o TruncMarker
                       ELSE b

C9_Witness ==
    /\ CodecString
    /\ Len(codec.options.body.text) = TruncLimit + 1
    /\ Len(codec.attributes["httpRequestBody"]) = TruncLimit + Len(TruncMarker)

\* C10: every httpRequestBody recorded for a request body of any shape is
\* at most TruncLimit characters plus the truncation marker long.
C10_BodiesTruncated ==
    (codec.phase = "output" /\ CodecHasBody) =>
        Len(codec.attributes["httpRequestBody"]) <= TruncLimit + Len(TruncMarker)

\* C11: when the captured fetch resolves a traced call with a response of
\* status s, the call's span ends with httpStatusCode = s and with status
\* ERROR if s >= 400 and OK otherwise, whatever the content type and however
\* the reading of the body went.
C11_StatusFromResponse ==
    \A c \in Calls :
        (Traced(c) /\ Finished(c) /\ calls[c].span # Null
           /\ calls[c].origOutcome.kind = "resolved") =>
            LET span == spans[calls[c].span]
                s == calls[c].res.status
            IN  /\ span.ends = 1
                /\ HasAttribute(span, "httpStatusCode")
                /\ span.attributes["httpStatusCode"] = s
                /\ span.status = IF s >= 400 THEN "ERROR" ELSE "OK"

\* the value the captured fetch rejected call c with
RejectedWith(c) == calls[c].origOutcome.value

\* C12: when the captured fetch rejects a traced call with e, the span gets
\* httpError = e.message if that is non-empty and String(e) otherwise,
\* httpStatusCode = e.status if e carries a status and 500 otherwise, and
\* status ERROR; the caller's promise rejects with e itself.
C12_RejectionAttributes ==
    \A c \in Calls :
        (Traced(c) /\ Finished(c) /\ calls[c].origOutcome.kind = "rejected") =>
            LET e == RejectedWith(c)
            IN  /\ calls[c].outcome = Rejected(e)
                /\ calls[c].span # Null =>
                      LET span == spans[calls[c].span]
                      IN  /\ HasAttribute(span, "httpError")
                          /\ span.attributes["httpError"] =
                                (IF e.message # "" THEN <<e.message>> ELSE StringOf(e))
                          /\ HasAttribute(span, "httpStatusCode")
                          /\ span.attributes["httpStatusCode"] =
                                (IF e.hasStatus THEN e.status ELSE 500)
                          /\ span.status = "ERROR"

\* the part of C12 about a span that exists: with a tracer only the status
\* code of a value that carries the status 0 differs
C12_WithTracer ==
    \A c \in Calls :
        (Traced(c) /\ Finished(c) /\ calls[c].origOutcome.kind = "rejected"
           /\ calls[c].span # Null /\ RejectedWith(c) # StatusZeroError) =>
            LET e == RejectedWith(c)
                span == spans[calls[c].span]
            IN  /\ calls[c].outcome = Rejected(e)
                /\ span.attributes["httpError"] =
                      (IF e.message # "" THEN <<e.message>> ELSE StringOf(e))
                /\ span.attributes["httpStatusCode"] =
                      (IF e.hasStatus THEN e.status ELSE 500)
                /\ span.status = "ERROR"

\* with a tracer, a value that carries the status 0 gets the status it carries
C12_StatusZero ==
    \A c \in Calls :
        (Traced(c) /\ Finished(c) /\ calls[c].origOutcome.kind = "rejected"
           /\ calls[c].span # Null /\ RejectedWith(c) = StatusZeroError) =>
            spans[calls[c].span].attributes["httpStatusCode"] = 0

\* the options of a call carry a body: options.body is given and is not the
\* empty string (a payload object is a body whatever it holds)
CarriesBody(init) ==
    /\ init.given
    /\ init.body.kind # "undefined"
    /\ init.body.kind = "string" => init.body.text # <<>>

\* the method of a call is GET and its URL has a non-empty query string
GetWithQuery(input, init) ==
    /\ Method(input, init) \in {"GET", "get"}
    /\ \E i \in 1..Len(input.url) : input.url[i] \in QueryPieces

\* C13: the span of a call is started with httpRequestBody and
\* httpRequestBodyType exactly when the options carry a body, and with
\* httpQueryParams exactly when the method is GET and the URL has a
\* non-empty query string; none of the three is present with an empty value.
C13_AbsentFieldsAbsent ==
    \A c \in Calls :
        (Traced(c) /\ calls[c].span # Null) =>
            LET span == spans[calls[c].span]
            IN  /\ HasAttribute(span, "httpRequestBody") <=> CarriesBody(calls[c].init)
                /\ HasAttribute(span, "httpRequestBodyType") <=> CarriesBody(calls[c].init)
                /\ HasAttribute(span, "httpQueryParams")
                      <=> GetWithQuery(calls[c].input, calls[c].init)
                /\ HasAttribute(span, "httpRequestBody") =>
                      span.attributes["httpRequestBody"] # <<>>
                /\ HasAttribute(span, "httpRequestBodyType") =>
                      span.attributes["httpRequestBodyType"] # ""
                /\ HasAttribute(span, "httpQueryParams") =>
                      span.attributes["httpQueryParams"] # <<>>

\* C13 for every body but an empty URLSearchParams
C13_ExceptEmptyParams ==
    \A c \in Calls :
        (Traced(c) /\ calls[c].span # Null
           /\ ~(calls[c].init.given /\ calls[c].init.body = ParamsBody(<<>>))) =>
            LET span == spans[calls[c].span]
            IN  /\ HasAttribute(span, "httpRequestBody") <=> CarriesBody(calls[c].init)
                /\ HasAttribute(span, "httpRequestBodyType") <=> CarriesBody(calls[c].init)
                /\ HasAttribute(span, "httpQueryParams")
                      <=> GetWithQuery(calls[c].input, calls[c].init)
                /\ HasAttribute(span, "httpRequestBody") =>
                      span.attributes["httpRequestBody"] # <<>>
                /\ HasAttribute(span, "httpRequestBodyType") =>
                      span.attributes["httpRequestBodyType"] # ""
                /\ HasAttribute(span, "httpQueryParams") =>
                      span.attributes["httpQueryParams"] # <<>>

\* the response of call c declares neither application/json nor text/*
OtherContentType(c) ==
    /\ ~IsJsonType(calls[c].res.contentType)
    /\ ~IsTextType(calls[c].res.contentType)

\* C14: for a response whose content type is neither application/json nor
\* text/*, no duplicate is read and the span gets neither an httpResponse
\* nor an httpResponseType attribute, not even with an empty value.
C14_UnknownTypeUnset ==
    \A c \in Calls :
        (Traced(c) /\ Finished(c) /\ calls[c].span # Null
           /\ calls[c].origOutcome.kind = "resolved" /\ OtherContentType(c)) =>
            /\ calls[c].cloneReads = 0
            /\ ~HasAttribute(spans[calls[c].span], "httpResponse")
            /\ ~HasAttribute(spans[calls[c].span], "httpResponseType")

\* the part of C14 the code keeps: no duplicate of such a response is read
C14_UnknownTypeUnread ==
    \A c \in Calls :
        (Traced(c) /\ calls[c].origOutcome.kind = "resolved" /\ OtherContentType(c)) =>
            calls[c].cloneReads = 0

\* C15: every non-collector call invokes the captured fetch exactly once
\* with the input and the options the caller passed, and when the captured
\* fetch resolves the caller receives the very response object it resolved
\* with.
C15_CallingContract ==
    \A c \in Calls :
        Traced(c) =>
            /\ calls[c].origCalls = 1
            /\ calls[c].origArgs = <<calls[c].input, calls[c].init>>
            /\ (Finished(c) /\ calls[c].origOutcome.kind = "resolved") =>
                  /\ calls[c].outcome.kind = "resolved"
                  /\ calls[c].outcome.value = calls[c].origOutcome.value

\* the part of C15 the code keeps: one invocation with the caller's arguments
C15_OneInvocation ==
    \A c \in Calls :
        Traced(c) =>
            /\ calls[c].origCalls = 1
            /\ calls[c].origArgs = <<calls[c].input, calls[c].init>>

\* the global fetch is the wrapper patchFetch installed
FetchIsWrapper == Len(wrappers) >= 1

\* C20: the patch guard is set exactly when the global fetch is the wrapper,
\* and once set it is never cleared, whatever operation follows (further
\* patchFetch calls, wrapped calls, tracker setup).
C20_GuardSetOnce ==
    /\ [](patched <=> FetchIsWrapper)
    /\ [][patched => patched']_vars

C20_Witness ==
    /\ patched
    /\ patchCalls >= 2
    /\ errorTracking
    /\ \E c \in Calls : Finished(c) /\ Traced(c)

\* the step is a use of the constructor with a required field missing
ConstructsInvalid ==
    /\ sdk'.constructs = sdk.constructs + 1
    /\ \E f \in RequiredFields : ~sdk'.config[f]

\* C18: a use of the constructor with apiKey, serviceName, serviceVersion or
\* collectorUrl missing throws, and no setup step has run: the config store,
\* the tracer, the global fetch, the patch guard, the console override and
\* the trackers' initialization flags are as they were.
C18_InvalidConfigThrowsFirst ==
    [][ConstructsInvalid =>
          /\ sdk'.outcome \notin {"none", "returned"}
          /\ UNCHANGED <<config, tracer, patched, wrappers, captures, patchCalls,
                         errorTracking, consoleLayers, navigation, performance,
                         spans>>]_vars

C18_Witness ==
    /\ sdk.constructs >= 1
    /\ sdk.build = "shimmed"
    /\ \A f \in RequiredFields : sdk.config[f] <=> f # "collectorUrl"
    /\ sdk.outcome = "Error: collectorUrl required"
    /\ config # NoConfig /\ tracer /\ patched
    /\ navigation.isInitialized /\ errorTracking /\ performance.isInitialized

\* the constructor was last used with every required field present
ConstructedValid ==
    /\ sdk.constructs >= 1
    /\ \A f \in RequiredFields : sdk.config[f]

\* C19: after a use of the constructor with every required field present
\* the constructor has returned normally and the SDK is tracking: the global
\* fetch is the wrapper and the guard is set, and navigation, error and
\* performance tracking are initialized.
C19_ConstructedIsTracking ==
    ConstructedValid =>
        /\ sdk.outcome = "returned"
        /\ patched /\ FetchIsWrapper
        /\ navigation.isInitialized
        /\ errorTracking
        /\ performance.isInitialized

\* the body of run r, resumed from an await, has started a span of its own
StartedWithin(r) == spans[<<"child", r>>].started = 1 /\ runs[r].span # Null

\* C16: a span that the body of a runWithSpan use A starts, with no explicit
\* parent, after A has resumed from an await has A's span as its parent,
\* never the span of an overlapping use B and never the root context,
\* however the two uses interleave.
C16_ParentAcrossAwait ==
    \A r \in Runs :
        StartedWithin(r) => spans[<<"child", r>>].parent = runs[r].span

\* what the code keeps of C16: such a span is never the child of another
\* use's span
C16_NeverAnothersChild ==
    \A r \in Runs :
        StartedWithin(r) =>
            \A q \in Runs \ {r} : spans[<<"child", r>>].parent # <<"run", q>>

\* call c is suspended at an await of the wrapper
AtAwait(c) == calls[c].pc \in {"fetching", "readJson", "readText", "readFallback"}

\* the span of call c holds what c's own request and c's own outcome give it
OwnSpanOnly(c) ==
    LET call == calls[c]
        span == spans[call.span]
    IN  /\ span.attributes["httpUrl"] = call.input.url
        /\ span.attributes["httpMethod"] = Method(call.input, call.init)
        /\ span.ends = IF Finished(c) THEN 1 ELSE 0
        /\ Finished(c) =>
              IF call.outcome.kind = "resolved"
              THEN /\ call.outcome.value.id = c
                   /\ span.attributes["httpStatusCode"] = call.outcome.value.status
                   /\ span.status = IF call.outcome.value.status >= 400 THEN "ERROR" ELSE "OK"
                   /\ ~HasAttribute(span, "httpError")
              ELSE /\ span.attributes["httpError"] = <<call.outcome.value.message>>
                   /\ span.status = "ERROR"

\* a call suspended at an await can resume whatever the other calls do
CanResume(c) ==
    /\ calls[c].pc = "fetching" =>
          /\ ENABLED (\E res \in ConcurrentResponses(c) : OrigResolve(c, res, TRUE, TRUE))
          /\ ENABLED OrigReject(c, HttpError)
    /\ calls[c].pc \in {"readJson", "readText", "readFallback"} =>
          ENABLED ReadSettle(c, TRUE, TRUE)

\* C17: wrapped calls that overlap are independent: the span of each call
\* holds only the attributes and the status of its own request and outcome
\* and is ended exactly once, when its own call completes; a step of one
\* call changes neither another call nor another call's span; and no call
\* waits on another to complete.
C17_CallsIndependent ==
    /\ [](\A c \in Calls : (Traced(c) /\ calls[c].span # Null) => OwnSpanOnly(c))
    /\ [](\A c \in Calls : CanResume(c))
    /\ [][\A c \in Calls :
             calls'[c] = calls[c] =>
                /\ spans'[<<"call", c>>] = spans[<<"call", c>>]
                /\ spans'[<<"console", c>>] = spans[<<"console", c>>]]_vars
    /\ [][\A c, d \in Calls : (calls'[c] # calls[c] /\ calls'[d] # calls[d]) => c = d]_vars

\* two calls overlapped and the later one completed first, each with its own
\* status
C17_Witness ==
    /\ AtAwait(1) /\ calls[1].pc # "fetching"
    /\ Finished(2) /\ calls[2].outcome.kind = "resolved"
    /\ spans[<<"call", 2>>].status = "ERROR"
    /\ spans[<<"call", 1>>].status = "OK"
    /\ spans[<<"call", 1>>].ends = 0
    /\ spans[<<"call", 2>>].ends = 1

\* the codec was applied to a payload object: a multipart form, a
\* form-encoded payload, a binary buffer or a blob
PayloadKinds == {"FormData", "URLSearchParams", "ArrayBuffer", "Blob"}
CodecPayload == codec.phase = "output" /\ codec.options.given
                  /\ codec.options.body.kind \in PayloadKinds

\* two payloads the placeholder may not tell apart: the same kind and, for
\* blobs, the same declared MIME type
SamePlaceholderClass(a, b) ==
    /\ a.kind = b.kind
    /\ a.kind = "Blob" => a.mime = b.mime

\* the tag of a payload kind
PayloadTag(kind) ==
    CASE kind = "FormData" -> "formdata"
      [] kind = "URLSearchParams" -> "urlencoded"
      [] kind = "ArrayBuffer" -> "arraybuffer"
      [] kind = "Blob" -> "blob"

\* C21: for a multipart form, a form-encoded payload, a binary buffer or a
\* blob the recorded httpRequestBody is a non-empty placeholder that is the
\* same for every payload of that kind (for a blob: of that kind and MIME
\* type), and httpRequestBodyType is the tag of the kind.
C21_PayloadPlaceholder ==
    CodecPayload =>
        /\ CodecHasBody
        /\ codec.attributes["httpRequestBody"] # <<>>
        /\ codec.attributes["httpRequestBodyType"] = PayloadTag(codec.options.body.kind)
        /\ \A b \in CodecBodies :
              SamePlaceholderClass(b, codec.options.body) =>
                 BodyAttributes(Options("POST", b))["httpRequestBody"]
                    = codec.attributes["httpRequestBody"]

\* C21 for every payload but the form-encoded one
C21_ExceptUrlEncoded ==
    (CodecPayload /\ codec.options.body.kind # "URLSearchParams") =>
        /\ CodecHasBody
        /\ codec.attributes["httpRequestBody"] # <<>>
        /\ codec.attributes["httpRequestBodyType"] = PayloadTag(codec.options.body.kind)
        /\ \A b \in CodecBodies :
              SamePlaceholderClass(b, codec.options.body) =>
                 BodyAttributes(Options("POST", b))["httpRequestBody"]
                    = codec.attributes["httpRequestBody"]

\* the tag is right for the form-encoded payload too
C21_TagOnly ==
    CodecPayload =>
        codec.attributes["httpRequestBodyType"] = PayloadTag(codec.options.body.kind)

\* C22: a span is written only between its creation and its end: no
\* setAttribute or setStatus reaches a span that has ended, in the wrapped
\* fetch and in both runner variants, and when the body threw or rejected
\* the ERROR status was set before end(), so the ended span carries it.
C22_MutatedBeforeEnd ==
    /\ \A i \in SpanSlots : spans[i].started >= 1 => spans[i].late = 0
    /\ \A c \in Calls :
          (Finished(c) /\ calls[c].span # Null /\ calls[c].outcome.kind = "rejected") =>
              /\ spans[calls[c].span].ends = 1
              /\ spans[calls[c].span].status = "ERROR"
    /\ \A r \in Runs :
          (runs[r].pc = "done" /\ runs[r].span # Null /\ runs[r].outcome = "threw") =>
              /\ spans[runs[r].span].ends = 1
              /\ spans[runs[r].span].status = "ERROR"

C22_Witness ==
    /\ \E c \in Calls :
          /\ Finished(c) /\ calls[c].outcome.kind = "rejected"
          /\ calls[c].origOutcome.kind = "rejected"
          /\ HasAttribute(spans[calls[c].span], "httpError")
    /\ \E r \in Runs :
          /\ runs[r].pc = "done" /\ runs[r].kind = "async" /\ runs[r].outcome = "threw"
          /\ spans[<<"child", r>>].started = 1
          /\ spans[<<"child", r>>].ends = 1

ReadFinished(c) ==
    /\ Traced(c) /\ Finished(c) /\ calls[c].span # Null
    /\ calls[c].origOutcome.kind = "resolved"
    /\ ~OtherContentType(c)

ResponseAttributesAre(c, bodyText, responseType) ==
    /\ HasAttribute(spans[calls[c].span], "httpResponse")
    /\ HasAttribute(spans[calls[c].span], "httpResponseType")
    /\ spans[calls[c].span].attributes["httpResponse"] = bodyText
    /\ spans[calls[c].span].attributes["httpResponseType"] = responseType

\* C24: an application/json response whose duplicate parses gets the
\* re-serialized JSON with type "json"; when the parse fails a fresh
\* duplicate is read as text and gives type "text"; when that read fails too
\* the body is "[unreadable response body]" with type "unknown"; a text/*
\* response that is read gets its text with type "text".
C24_FallbackChain ==
    \A c \in Calls :
        (ReadFinished(c) /\ calls[c].cloneReads >= 1) =>
            LET res == calls[c].res
                first == calls[c].cloneReads = 1
            IN  /\ (IsJsonType(res.contentType) /\ first /\ calls[c].lastRead = "ok") =>
                       ResponseAttributesAre(c, Restringify(res.text), "json")
                /\ (IsJsonType(res.contentType) /\ ~ParsesAsJson(res.text)) =>
                       \/ /\ calls[c].cloneReads = 2 /\ calls[c].lastRead = "ok"
                          /\ ResponseAttributesAre(c, res.text, "text")
                       \/ /\ calls[c].cloneReads = 2 /\ calls[c].lastRead = "failed"
                          /\ ResponseAttributesAre(c, <<"[unreadable response body]">>,
                                                   "unknown")
                /\ (IsTextType(res.contentType) /\ first /\ calls[c].lastRead = "ok") =>
                       ResponseAttributesAre(c, res.text, "text")

\* the part of C24 the code keeps: the chain as stated, for the calls whose
\* header and duplicates could be obtained
C24_WhenDuplicated ==
    \A c \in Calls :
        (ReadFinished(c) /\ calls[c].outcome.kind = "resolved") =>
            LET res == calls[c].res
            IN  /\ (calls[c].cloneReads = 1 /\ IsJsonType(res.contentType)) =>
                       /\ ParsesAsJson(res.text) /\ calls[c].lastRead = "ok"
                       /\ ResponseAttributesAre(c, Restringify(res.text), "json")
                /\ (calls[c].cloneReads = 1 /\ ~IsJsonType(res.contentType)) =>
                       /\ calls[c].lastRead = "ok"
                       /\ ResponseAttributesAre(c, res.text, "text")
                /\ (calls[c].cloneReads = 2 /\ calls[c].lastRead = "ok") =>
                       /\ calls[c].clones = 2
                       /\ ResponseAttributesAre(c, res.text, "text")
                /\ (calls[c].cloneReads = 2 /\ calls[c].lastRead = "failed") =>
                       /\ calls[c].clones = 2
                       /\ ResponseAttributesAre(c, <<"[unreadable response body]">>, "unknown")
                /\ calls[c].cloneReads \in {1, 2}

\* the URL of call c has a query string
HasQuery(c) == \E i \in 1..Len(calls[c].input.url) : calls[c].input.url[i] \in QueryPieces

\* C25: the method of a traced call is options.method when given, else the
\* method of a request-like input, else GET; httpQueryParams is recorded
\* only for the method GET in any letter case, so a call with another
\* method never carries it even when its URL has a query string.
C25_MethodAndQuery ==
    \A c \in Calls :
        (Traced(c) /\ calls[c].span # Null) =>
            LET span == spans[calls[c].span]
                input == calls[c].input
                init == calls[c].init
                method == span.attributes["httpMethod"]
            IN  /\ (init.given /\ init.method # "") => method = init.method
                /\ (~(init.given /\ init.method # "") /\ input.kind = "request"
                      /\ input.method # "") => method = input.method
                /\ (~(init.given /\ init.method # "")
                      /\ ~(input.kind = "request" /\ input.method # "")) => method = "GET"
                /\ HasAttribute(span, "httpQueryParams") => method \in {"GET", "get"}
                /\ (method \in {"GET", "get"} /\ HasQuery(c)) =>
                       HasAttribute(span, "httpQueryParams")

\* a finished POST given by the options over a GET request object whose URL
\* has a query
C25_Witness ==
    \E c \in Calls :
        /\ Traced(c) /\ Finished(c) /\ calls[c].span # Null
        /\ calls[c].input.kind = "request" /\ calls[c].input.method = "GET"
        /\ spans[calls[c].span].attributes["httpMethod"] = "POST"
        /\ HasQuery(c)
        /\ ~HasAttribute(spans[calls[c].span], "httpQueryParams")

\* a lower-case get carries its query
C25_LowerCaseGet ==
    \E c \in Calls :
        /\ Traced(c) /\ calls[c].span # Null
        /\ spans[calls[c].span].attributes["httpMethod"] = "get"
        /\ HasAttribute(spans[calls[c].span], "httpQueryParams")

\* C26: every tracker setup is one-shot, so console.error is wrapped at most
\* once and every call of console.error invokes the original console.error
\* exactly once and starts at most one span. The calls of console.error
\* are the ones the bypass makes when the captured fetch rejects.
C26_ConsoleOnce ==
    /\ consoleLayers <= 1
    /\ \A c \in Calls :
        (Bypassed(c) /\ Finished(c) /\ calls[c].origOutcome.kind = "rejected") =>
            /\ calls[c].logged = 1
            /\ spans[<<"console", c>>].started <= 1

\* the part of C26 the code keeps: however often the setups are called, the
\* console is wrapped at most once and each tracker registers its listeners
\* once
C26_OneShot ==
    /\ consoleLayers = (IF errorTracking THEN 1 ELSE 0)
    /\ navigation.listeners = (IF navigation.isInitialized THEN 3 ELSE 0)
    /\ performance.listeners <= 3
    /\ performance.isInitialized <=> performance.listeners > 0
    /\ \A c \in Calls : spans[<<"console", c>>].started <= 1

\* C27: a call whose input is neither a string nor an object with a url
\* field (a URL object) is rejected by the wrapper itself: the captured
\* fetch is never invoked for it and no span is started for it.
C27_UrlObjectRejected ==
    \A c \in Calls :
        (calls[c].pc # "idle" /\ calls[c].input.kind = "object") =>
            /\ calls[c].pc = "done"
            /\ calls[c].outcome = Rejected(UrlError)
            /\ calls[c].origCalls = 0
            /\ calls[c].origOutcome = Pending
            /\ calls[c].span = Null
            /\ spans[<<"call", c>>].started = 0
            /\ spans[<<"console", c>>].started = 0

\* fetch(new URL(...)) was called with a tracer set up
C27_Witness ==
    \E c \in Calls :
        /\ tracer
        /\ calls[c].pc = "done" /\ calls[c].input = UrlObjectInput(UsersUrl)
        /\ calls[c].outcome.kind = "rejected"

\* C28: the collector endpoint used for loop prevention is the collectorUrl
\* of the configuration at the first successful patchFetch and is never
\* read again: whatever the configuration is later and however often
\* patchFetch is called, a call is bypassed exactly when its URL contains
\* that endpoint, so a call to a new collector URL is traced and a call to
\* the old one is still bypassed.
C28_EndpointCapturedOnce ==
    [][/\ (wrappers = <<>> /\ wrappers' # <<>>) =>
              wrappers' = <<[ingestEndpoint |-> config]>>
       /\ wrappers # <<>> => wrappers' = wrappers
       /\ \A c \in Calls :
            (calls[c].pc = "idle" /\ calls'[c].pc # "idle") =>
                /\ calls'[c].pc = "bypass" <=>
                       Includes(calls'[c].input.url, wrappers[1].ingestEndpoint)
                /\ calls'[c].pc = "fetching" <=>
                       ~Includes(calls'[c].input.url, wrappers[1].ingestEndpoint)]_vars

\* after the collectorUrl was changed and patchFetch was called again, a call
\* to the new collector is traced while a call to the old one is bypassed
C28_Witness ==
    /\ wrappers # <<>> /\ patchCalls = 2
    /\ config = NewCollectorUrl /\ wrappers[1].ingestEndpoint = CollectorUrl
    /\ calls[1].pc = "bypass" /\ calls[1].input.url = CollectorUrl
    /\ calls[2].pc = "fetching" /\ calls[2].input.url = NewCollectorUrl
    /\ calls[2].span # Null /\ spans[calls[2].span].started = 1

\* the wrapper is suspended on a read of a duplicate's body
ReadPcs == {"readJson", "readText", "readFallback"}

\* C29: for an application/json or text/* response of a call with a span,
\* the wrapper's promise resolves only after a read of the duplicate's body
\* has settled and the span has been ended; while a read has not settled the
\* promise stays pending and the span stays open although the captured fetch
\* has resolved, and nothing but the settling of that read ends the wait.
C29_ResolvesAfterRead ==
    [][\A c \in Calls :
          /\ calls'[c].pc \in ReadPcs =>
                /\ calls'[c].origOutcome.kind = "resolved"
                /\ calls'[c].outcome = Pending
                /\ spans'[calls'[c].span].started = 1
                /\ spans'[calls'[c].span].ends = 0
          /\ (calls[c].pc \in ReadPcs /\ calls'[c] # calls[c]) =>
                calls'[c].cloneReads = calls[c].cloneReads + 1
          /\ (calls[c].pc \in ReadPcs /\ calls'[c] = calls[c]) =>
                spans'[calls[c].span] = spans[calls[c].span]
          /\ (calls'[c].span # Null /\ calls'[c].outcome.kind = "resolved"
                /\ (IsJsonType(calls'[c].res.contentType)
                      \/ IsTextType(calls'[c].res.contentType))) =>
                /\ calls'[c].cloneReads >= 1
                /\ calls'[c].pc = "done"
                /\ spans'[calls'[c].span].ends = 1]_vars

\* the captured fetch has resolved with a JSON response and the wrapper is
\* waiting for the read of its duplicate
C29_Witness ==
    \E c \in Calls :
        /\ calls[c].pc = "readJson" /\ calls[c].span # Null
        /\ calls[c].origOutcome.kind = "resolved"
        /\ calls[c].outcome = Pending
        /\ spans[calls[c].span].ends = 0

====
